---- MODULE Spec2Model ----
(***************************************************************************)
(* The adaptive cgroup governor: the controller loop                       *)
(* (controller/controller.py), the observer loop (agent/agent.py) and the  *)
(* soft-limit policy (controller/ml_policy.py).                            *)
(*                                                                         *)
(* The controller and the observer are two separate processes that share   *)
(* no memory.  A behaviour of Spec is a run of one of the two programs     *)
(* (variable program), so an invariant of Spec holds of every state of     *)
(* either program.                                                         *)
(*                                                                         *)
(* A handler is a sequence of primitive operations (emit an event, assign  *)
(* a ResourceState field, write a cgroup file, raise) listed in the order  *)
(* of the source; Exec runs the list and stops at the first operation      *)
(* that raises.  Which cgroup write fails, if any, is chosen by the        *)
(* environment.                                                            *)
(***************************************************************************)
EXTENDS Integers, Sequences, FiniteSets, TLC

\* ------------------------------------------------------------------ bounds

\* cumulative throttled_usec / nr_throttled readings range over 0..MaxCounter
MaxCounter == 2
\* cumulative usage_usec readings range over 0..MaxUsage
MaxUsage == 1
\* the regressor's predictions are the multiples of 1/PredDen in 0..MaxPred
PredDen == 2
MaxPred == 5

\* Python's None, for the Optional[int] fields of ResourceState and the
\* optional results; every proper value of the model is >= 0.
None == -1

Max(a, b) == IF a >= b THEN a ELSE b
Min(a, b) == IF a <= b THEN a ELSE b

\* ----------------------------------------------------------- configuration

\* config["containers"]: the managed containers, in iteration order.
ContainerOrder == <<"web">>
Containers == {ContainerOrder[i] : i \in 1..Len(ContainerOrder)}

CpuCfg(soft, hard, step, pids) ==
    [soft_quota_us |-> soft, hard_quota_us |-> hard, period_us |-> 10,
     adjust_step_us |-> step, pids |-> pids]
MemCfg(soft, hard, step) ==
    [soft_bytes |-> soft, hard_bytes |-> hard, adjust_step_bytes |-> step]
IoCfg(sr, sw, hr, hw, step) ==
    [device |-> "8:0", soft_rbps |-> sr, soft_wbps |-> sw, hard_rbps |-> hr,
     hard_wbps |-> hw, adjust_step_bps |-> step]

\* The container payloads a configuration file may hold.  Nothing validates
\* the file when it is loaded, so payloads with soft > hard are among them.
ValidCpu == CpuCfg(1, 4, 2, <<7>>)
ValidMemory == MemCfg(20, 40, 15)
ValidIo == IoCfg(1, 2, 3, 3, 2)
ContainerConfigs ==
    { \* soft <= hard throughout: each soft limit that is below its hard limit
      \* takes a step that fits and a step that overshoots (CPU and memory
      \* one after the other, I/O read the first and I/O write the second);
      \* one pid to attach
      [cpu |-> ValidCpu, memory |-> ValidMemory, io |-> ValidIo],
      \* CPU soft > hard
      [cpu |-> CpuCfg(5, 4, 2, <<>>), memory |-> ValidMemory, io |-> ValidIo],
      \* memory soft > hard
      [cpu |-> ValidCpu, memory |-> MemCfg(50, 40, 15), io |-> ValidIo],
      \* I/O read soft > hard
      [cpu |-> ValidCpu, memory |-> ValidMemory, io |-> IoCfg(4, 3, 3, 3, 2)] }

SoftLeHard(payload) ==
    /\ payload.cpu.soft_quota_us <= payload.cpu.hard_quota_us
    /\ payload.memory.soft_bytes <= payload.memory.hard_bytes
    /\ payload.io.soft_rbps <= payload.io.hard_rbps
    /\ payload.io.soft_wbps <= payload.io.hard_wbps

\* ------------------------------------------------------------------- state

VARIABLES
    program,        \* which binary this run is: "controller" | "agent" | "policy"
    dry_run,        \* --dry-run
    samples_path,   \* metrics.samples_sink is configured
    policy_loaded,  \* Controller.policy is not None
    config,         \* config["containers"]: name -> payload
    pc,             \* the statement of run() about to execute
    cur,            \* index in ContainerOrder of the container being handled
    state,          \* Controller.state: name -> ResourceState (lazily filled)
    meta,           \* cpu_meta / mem_meta / io_meta, the locals of an iteration of run()
    cgroup,         \* cgroupfs: name -> file -> content (None: never written)
    written,        \* the cgroup files written by the last step, in order
    events_sink,    \* the lines appended to the event journal by the last step
    stdout,         \* the events printed by the last step
    samples_sink,   \* the lines appended to the sample journal by the last step
    read,           \* the statistics reading consumed by the last step, if any
    hist,           \* history (when recorded): each file's previous reading
    agent,          \* PressureAgent: last_memory_events, last_cpu_throttled, last_io_stat
    call,           \* the call of SoftLimitPolicy.suggest the last step made, and its result
    error           \* the exception that ended the process, or "none"

vars == <<program, dry_run, samples_path, policy_loaded, config, pc, cur, state, meta, cgroup,
          written, events_sink, stdout, samples_sink, read, hist, agent, call, error>>

\* ResourceState()
NoEval == [prev_delta |-> None, new_soft |-> None, previous_soft |-> None]
NewResourceState ==
    [cpu_soft |-> None, last_cpu_usage |-> None, last_cpu_throttled |-> None,
     memory_soft |-> None, io_soft_rbps |-> None, io_soft_wbps |-> None,
     pending_eval |-> NoEval]

\* PressureAgent.__init__: the three dictionaries, empty
NewAgent == [last_memory_events |-> <<>>, last_cpu_throttled |-> <<>>,
             last_io_stat |-> <<>>]

CgroupFiles == {"cpu.max", "memory.high", "memory.max", "io.max", "cgroup.procs"}
NoFiles == [f \in CgroupFiles |-> <<>>]

NoMeta == [cpu |-> <<>>, mem |-> <<>>, io |-> <<>>]

\* The history variable.  With on, it holds the latest reading of each
\* statistics file (<<>>: not read yet), the file read last (file), whether
\* every reading of the current iteration equalled the reading of the same
\* file one iteration earlier (same), and whether the current iteration
\* emitted one of the events in WatchedEvents (hit), and whether the latest
\* cpu.stat the controller consumed had a counter below the remembered one
\* (fell), and whether the latest memory.events the observer consumed came
\* after a baseline (based).  With count, it holds how many adjust_cpu in a
\* row, up to the latest, read a throttled_usec above the remembered one
\* (streak), the first and the latest cpu.stat an adjust_cpu that returned
\* had read (base, seen), the sums of the usage_delta and throttled_delta
\* the adjust_cpu calls returned (sum), and whether no cpu.stat counter has
\* been read below the remembered one (mono; base, seen, sum and gap are kept
\* only while it holds), and whether an adjust_cpu after the first reading
\* found cpu.stat missing (gap).  It is written only, never read by a handler.
NoSum == [usage |-> 0, throttled |-> 0]
NoHistory == [on |-> FALSE, cpu |-> <<>>, mem |-> <<>>, io |-> <<>>,
              file |-> "", same |-> TRUE, hit |-> FALSE, fell |-> FALSE,
              based |-> FALSE,
              count |-> FALSE, streak |-> 0, base |-> <<>>, seen |-> <<>>,
              sum |-> NoSum, mono |-> TRUE, gap |-> FALSE]
WatchedEvents == {"soft_limit_hit", "hard_limit_hit", "cpu_throttle"}
Record(h, file, reading, events) ==
    IF ~h.on THEN h
    ELSE [h EXCEPT ![file] = <<reading>>,
                   !.file = file,
                   !.same = @ /\ h[file] = <<reading>>,
                   !.hit = @ \/ \E i \in 1..Len(events) : events[i].type \in WatchedEvents]
NewIteration(h) ==
    IF ~h.on THEN h ELSE [h EXCEPT !.file = "", !.same = TRUE, !.hit = FALSE]
ThrottledRose(st, stat) ==
    /\ stat.present
    /\ st.last_cpu_usage # None
    /\ stat.throttled_usec > st.last_cpu_throttled
CounterFell(st, stat) ==
    /\ stat.present
    /\ st.last_cpu_usage # None
    /\ \/ stat.usage_usec < st.last_cpu_usage
       \/ stat.throttled_usec < st.last_cpu_throttled

\* the history after an adjust_cpu that read stat in ResourceState st and,
\* if it returned, returned cpu_meta
Counted(h, st, stat, cpu_meta, returned) ==
    IF ~h.count THEN h
    ELSE LET mono == h.mono /\ ~CounterFell(st, stat) IN
         [h EXCEPT !.streak = IF ThrottledRose(st, stat) THEN @ + 1 ELSE 0,
                   !.mono = mono,
                   !.base = IF ~mono THEN <<>>
                            ELSE IF @ = <<>> /\ stat.present /\ returned
                            THEN <<stat>> ELSE @,
                   !.seen = IF ~mono THEN <<>>
                            ELSE IF stat.present /\ returned THEN <<stat>> ELSE @,
                   !.gap = mono /\ (@ \/ (h.base # <<>> /\ ~stat.present)),
                   !.sum = IF ~mono THEN NoSum
                           ELSE IF returned
                           THEN [usage |-> @.usage + cpu_meta.usage_delta,
                                 throttled |-> @.throttled + cpu_meta.throttled_delta]
                           ELSE @]

\* ------------------------------------------------- primitive operations

Event(type, resource, name, data) ==
    [type |-> type, resource |-> resource, container |-> name, data |-> data]

OpEmit(e) == [op |-> "emit", event |-> e]
OpSet(field, value) == [op |-> "set", field |-> field, value |-> value]
OpWrite(file, content) == [op |-> "write", file |-> file, content |-> content]
OpRaise(exc) == [op |-> "raise", exc |-> exc]

\* write_cpu_max without its dry-run test
WriteCpuMaxAlways(dry, quota, period) == <<OpWrite("cpu.max", <<quota, period>>)>>

\* write_cpu_max / write_memory_limits / write_io_limit: nothing in dry-run.
WriteCpuMax(dry, quota, period) ==
    IF dry THEN <<>> ELSE <<OpWrite("cpu.max", <<quota, period>>)>>
WriteMemoryLimits(dry, soft, hard) ==
    IF dry THEN <<>>
    ELSE <<OpWrite("memory.high", <<soft>>), OpWrite("memory.max", <<hard>>)>>
WriteIoLimit(dry, io_cfg, rbps, wbps) ==
    IF dry THEN <<>> ELSE <<OpWrite("io.max", <<io_cfg.device, rbps, wbps>>)>>

RECURSIVE AttachPids(_, _, _)
AttachPids(dry, name, pids) ==
    IF pids = <<>> THEN <<>>
    ELSE <<OpEmit(Event("info", "cgroup", name, [pid |-> Head(pids)]))>>
         \o (IF dry THEN <<>> ELSE <<OpWrite("cgroup.procs", <<Head(pids)>>)>>)
         \o AttachPids(dry, name, Tail(pids))

NumWrites(ops) == Cardinality({i \in 1..Len(ops) : ops[i].op = "write"})

\* The outcome of running ops from ResourceState st and files fs when the
\* fail-th write of the list raises OSError (fail = 0: every write succeeds).
RECURSIVE Exec(_, _, _)
Exec(ops, fail, acc) ==
    IF ops = <<>> \/ acc.exc # "none" THEN acc
    ELSE LET o == Head(ops) IN
         Exec(Tail(ops), fail,
              CASE o.op = "emit" -> [acc EXCEPT !.emitted = Append(@, o.event)]
                [] o.op = "set" -> [acc EXCEPT !.st[o.field] = o.value]
                [] o.op = "raise" -> [acc EXCEPT !.exc = o.exc]
                [] o.op = "write" ->
                     IF acc.nwrites + 1 = fail
                     THEN [acc EXCEPT !.exc = "OSError"]
                     ELSE [acc EXCEPT !.fs[o.file] = o.content,
                                      !.written = Append(@, o.file),
                                      !.nwrites = @ + 1])

Run(ops, fail, st, fs) ==
    Exec(ops, fail, [st |-> st, fs |-> fs, written |-> <<>>, emitted |-> <<>>,
                     nwrites |-> 0, exc |-> "none"])

\* emit(): printed in dry-run, appended to the event journal otherwise.
Emit(events) ==
    /\ events_sink' = IF dry_run THEN <<>> ELSE events
    /\ stdout' = IF dry_run THEN events ELSE <<>>

\* What a handler of container name leaves behind: the ResourceState and files
\* as far as it got, its events, and either the next statement or the
\* exception, which run() and main() do not catch.
Finish(name, r, next_pc, next_meta) ==
    /\ state' = (name :> r.st) @@ state
    /\ cgroup' = [cgroup EXCEPT ![name] = r.fs]
    /\ written' = r.written
    /\ Emit(r.emitted)
    /\ error' = r.exc
    /\ pc' = IF r.exc = "none" THEN next_pc ELSE "crashed"
    /\ meta' = IF r.exc = "none" THEN next_meta ELSE meta

\* ------------------------------------------------------------ controller

\* ensure_base_limits(name, payload), on the ResourceState st.
EnsureBaseOps(dry, name, payload, st) ==
    LET cpu == payload.cpu
        memory == payload.memory
        io == payload.io
    IN  IF cpu.soft_quota_us > cpu.hard_quota_us THEN <<OpRaise("ValueError")>>
        ELSE (IF st.cpu_soft = None
              THEN WriteCpuMax(dry, cpu.soft_quota_us, cpu.period_us)
                   \o <<OpSet("cpu_soft", cpu.soft_quota_us)>>
              ELSE <<>>)
          \o AttachPids(dry, name, cpu.pids)
          \o (IF memory.soft_bytes > memory.hard_bytes
              THEN <<OpRaise("ValueError")>>
              ELSE (IF st.memory_soft = None
                    THEN WriteMemoryLimits(dry, memory.soft_bytes, memory.hard_bytes)
                         \o <<OpSet("memory_soft", memory.soft_bytes)>>
                    ELSE <<>>)
                \o (IF st.io_soft_rbps = None
                    THEN WriteIoLimit(dry, io, io.soft_rbps, io.soft_wbps)
                         \o <<OpSet("io_soft_rbps", io.soft_rbps),
                              OpSet("io_soft_wbps", io.soft_wbps)>>
                    ELSE <<>>))

\* run(): self.state.setdefault(name, ResourceState());
\*        self.ensure_base_limits(name, payload)
EnsureBaseLimits ==
    /\ program = "controller"
    /\ pc = "ensure_base"
    /\ LET name == ContainerOrder[cur]
           st == IF name \in DOMAIN state THEN state[name] ELSE NewResourceState
           ops == EnsureBaseOps(dry_run, name, config[name], st)
       IN  \E fail \in 0..NumWrites(ops) :
               Finish(name, Run(ops, fail, st, cgroup[name]), "collect_stats", meta)
    /\ samples_sink' = <<>>
    /\ read' = <<>>
    /\ UNCHANGED <<program, dry_run, policy_loaded, samples_path, config, cur, hist, agent, call>>


\* collect_stats(payload): the three statistics files are read here, before
\* adjust_cpu.  Nothing the controller does between this read and the
\* adjust_* call that consumes a reading changes it, so each reading is drawn
\* in the step that consumes it; this step decides only whether all files
\* that exist parse.  parse_key_value (line.split() of a line with more than
\* two tokens), read_int and parse_io_stat raise ValueError otherwise.
CollectStats ==
    /\ program = "controller"
    /\ pc = "collect_stats"
    /\ \E parses \in BOOLEAN :
          /\ pc' = IF parses THEN "adjust_cpu" ELSE "crashed"
          /\ error' = IF parses THEN "none" ELSE "ValueError"
    /\ written' = <<>>
    /\ read' = <<>>
    /\ Emit(<<>>)
    /\ samples_sink' = <<>>
    /\ UNCHANGED <<program, dry_run, policy_loaded, samples_path, config, cur,
                   state, meta, cgroup, hist, agent, call>>

\* stats["cpu_stat"]: {} when cpu.stat is missing or holds no key/value line,
\* else its usage_usec and throttled_usec (a key that is absent reads as 0).
NoCpuStat == [present |-> FALSE, usage_usec |-> 0, throttled_usec |-> 0]
CpuStatReadings ==
    {NoCpuStat} \cup
    [present : {TRUE}, usage_usec : 0..MaxUsage, throttled_usec : 0..MaxCounter]

\* ---------------------------------------------------------------- policy

\* int(x) of the rational num/PredDen: truncation towards zero.
Trunc(num) == IF num >= 0 THEN num \div PredDen ELSE -((-num) \div PredDen)

\* The regressor's answers: predicted = pred/PredDen.
Predictions == 0..(MaxPred * PredDen)

\* SoftLimitPolicy.suggest(features, hard_cap, current_soft), the regressor
\* having predicted pred/PredDen.
Suggest(pred, hard_cap, current_soft) ==
    IF current_soft = None THEN None
    ELSE IF pred <= current_soft * PredDen THEN None
    ELSE Trunc(Min(pred, hard_cap * PredDen))

\* self.model.predict (or float() / int() of what it returns) raising
\* instead of answering
Raised == -2

\* suggest_cpu_soft_limit without its  if not self.policy: return None
SuggestCpuSoftLimitUnguarded(loaded, payload, st) ==
    {Suggest(pred, payload.cpu.hard_quota_us, st.cpu_soft) : pred \in Predictions}
    \cup {Raised}

\* suggest_cpu_soft_limit: every outcome of the call for this state; nothing
\* between the regressor and adjust_cpu catches an exception.
SuggestCpuSoftLimit(loaded, payload, st) ==
    IF ~loaded THEN {None}
    ELSE {Suggest(pred, payload.cpu.hard_quota_us, st.cpu_soft) : pred \in Predictions}
         \cup {Raised}

\* Python's  a or b  on Optional[int]: None and 0 are falsy.
PyOr(a, b) == IF a = None \/ a = 0 THEN b ELSE a

\* ------------------------------------------------------------ adjust_cpu

\* the usage delta without its max(..., 0)
CpuUsageDifference(st, stat) ==
    IF stat.present /\ st.last_cpu_usage # None
    THEN stat.usage_usec - st.last_cpu_usage ELSE 0
CpuUsageDelta(st, stat) ==
    IF stat.present /\ st.last_cpu_usage # None
    THEN Max(stat.usage_usec - st.last_cpu_usage, 0) ELSE 0
\* the cumulative throttled_usec taken for the delta
CpuThrottledTotal(st, stat) ==
    IF stat.present /\ st.last_cpu_usage # None THEN stat.throttled_usec ELSE 0
CpuThrottledDelta(st, stat) ==
    IF stat.present /\ st.last_cpu_usage # None
    THEN Max(stat.throttled_usec - st.last_cpu_throttled, 0) ELSE 0

\* the heuristic raise taken from the step alone, not from the applied soft
CpuNewSoftFromStep(cpu, st, suggested) ==
    PyOr(suggested, Min(cpu.adjust_step_us, cpu.hard_quota_us))

\* the heuristic raise by one microsecond, whatever adjust_step_us is
CpuNewSoftUnitStep(cpu, st, suggested) ==
    PyOr(suggested, Min(st.cpu_soft + 1, cpu.hard_quota_us))

\* new_soft = suggested or min(state.cpu_soft + adjust_step_us, hard_quota_us)
CpuNewSoft(cpu, st, suggested) ==
    PyOr(suggested, Min(st.cpu_soft + cpu.adjust_step_us, cpu.hard_quota_us))

\* the resolution without  state.pending_eval = None
ResolvePendingKeepOps(name, st, throttled_delta) ==
    IF st.pending_eval = NoEval THEN <<>>
    ELSE LET prev == st.pending_eval IN
         <<OpEmit(Event(IF throttled_delta < prev.prev_delta
                        THEN "ml_effective" ELSE "ml_no_improvement",
                        "cpu", name,
                        [previous_delta |-> prev.prev_delta,
                         current_delta |-> throttled_delta,
                         applied_soft_quota_us |-> prev.new_soft,
                         improvement |-> prev.prev_delta - throttled_delta]))>>

\* the resolution counting an equal throttling delta as effective
ResolvePendingLenientOps(name, st, throttled_delta) ==
    IF st.pending_eval = NoEval THEN <<>>
    ELSE LET prev == st.pending_eval IN
         <<OpEmit(Event(IF throttled_delta <= prev.prev_delta
                        THEN "ml_effective" ELSE "ml_no_improvement",
                        "cpu", name,
                        [previous_delta |-> prev.prev_delta,
                         current_delta |-> throttled_delta,
                         applied_soft_quota_us |-> prev.new_soft,
                         improvement |-> prev.prev_delta - throttled_delta])),
           OpSet("pending_eval", NoEval)>>

\* the effectiveness resolution of a pending_eval
ResolvePendingOps(name, st, throttled_delta) ==
    IF st.pending_eval = NoEval THEN <<>>
    ELSE LET prev == st.pending_eval
             event_type == IF throttled_delta < prev.prev_delta
                           THEN "ml_effective" ELSE "ml_no_improvement"
         IN  <<OpEmit(Event(event_type, "cpu", name,
                            [previous_delta |-> prev.prev_delta,
                             current_delta |-> throttled_delta,
                             applied_soft_quota_us |-> prev.new_soft,
                             improvement |-> prev.prev_delta - throttled_delta])),
               OpSet("pending_eval", NoEval)>>

\* the raise of the soft quota, a dry-run announcing it only
CpuRaiseOpsDryAnnounces(dry, name, cpu, st, throttled_delta, suggested) ==
    LET ml_used == suggested # None
        previous_soft == st.cpu_soft
        new_soft == CpuNewSoft(cpu, st, suggested)
    IN  <<OpEmit(Event("soft_limit_hit", "cpu", name, [new_soft_quota_us |-> new_soft]))>>
        \o (IF dry THEN <<>>
            ELSE <<OpSet("cpu_soft", new_soft),
                   OpWrite("cpu.max", <<new_soft, cpu.period_us>>)>>)
        \o (IF ml_used
            THEN <<OpSet("pending_eval", [prev_delta |-> throttled_delta,
                                          new_soft |-> new_soft,
                                          previous_soft |-> previous_soft]),
                   OpEmit(Event("ml_adjustment", "cpu", name,
                                [previous_soft_quota_us |-> previous_soft,
                                 new_soft_quota_us |-> new_soft,
                                 throttled_delta_usec |-> throttled_delta]))>>
            ELSE <<>>)

\* the raise of the soft quota
CpuRaiseOps(dry, name, cpu, st, throttled_delta, suggested) ==
    LET ml_used == suggested # None
        previous_soft == st.cpu_soft
        new_soft == CpuNewSoft(cpu, st, suggested)
    IN  <<OpEmit(Event("soft_limit_hit", "cpu", name, [new_soft_quota_us |-> new_soft])),
          OpSet("cpu_soft", new_soft)>>
        \o WriteCpuMax(dry, new_soft, cpu.period_us)
        \o (IF ml_used
            THEN <<OpSet("pending_eval", [prev_delta |-> throttled_delta,
                                          new_soft |-> new_soft,
                                          previous_soft |-> previous_soft]),
                   OpEmit(Event("ml_adjustment", "cpu", name,
                                [previous_soft_quota_us |-> previous_soft,
                                 new_soft_quota_us |-> new_soft,
                                 throttled_delta_usec |-> throttled_delta]))>>
            ELSE <<>>)

CpuDecides(cpu, st, stat) ==
    /\ stat.present
    /\ st.last_cpu_usage # None
    /\ CpuThrottledDelta(st, stat) > 0
    /\ st.cpu_soft < cpu.hard_quota_us

\* the decision with the raise taken up to and including the hard quota
CpuDecisionInclusiveOps(dry, name, cpu, st, throttled_delta, suggested) ==
    IF throttled_delta > 0 /\ st.cpu_soft <= cpu.hard_quota_us
    THEN CpuRaiseOps(dry, name, cpu, st, throttled_delta, None)
    ELSE IF throttled_delta > 0
    THEN <<OpEmit(Event("hard_limit_hit", "cpu", name,
                        [hard_quota_us |-> cpu.hard_quota_us]))>>
    ELSE <<>>

\* the decision of adjust_cpu: raise the soft quota, report the hard limit,
\* or nothing
CpuDecisionOps(dry, name, cpu, st, throttled_delta, suggested) ==
    IF throttled_delta > 0 /\ st.cpu_soft < cpu.hard_quota_us
    THEN (IF suggested = Raised
          THEN <<OpRaise("PolicyError")>>
          ELSE CpuRaiseOps(dry, name, cpu, st, throttled_delta, suggested))
    ELSE IF throttled_delta > 0 /\ st.cpu_soft >= cpu.hard_quota_us
    THEN <<OpEmit(Event("hard_limit_hit", "cpu", name,
                        [hard_quota_us |-> cpu.hard_quota_us]))>>
    ELSE <<>>

\* adjust_cpu without its  if not stat: return
AdjustCpuOpsMissingAsZeros(dry, name, payload, st, stat, suggested) ==
    LET throttled_delta == IF st.last_cpu_usage # None
                           THEN Max(stat.throttled_usec - st.last_cpu_throttled, 0)
                           ELSE 0
    IN  (IF st.last_cpu_usage # None
         THEN ResolvePendingOps(name, st, throttled_delta)
              \o CpuDecisionOps(dry, name, payload.cpu, st, throttled_delta, suggested)
         ELSE <<>>)
        \o <<OpSet("last_cpu_usage", stat.usage_usec),
             OpSet("last_cpu_throttled", stat.throttled_usec)>>

\* adjust_cpu remembering the counters of its first reading only
AdjustCpuOpsKeepBaseline(dry, name, payload, st, stat, suggested) ==
    LET cpu == payload.cpu
        throttled_delta == CpuThrottledDelta(st, stat)
    IN  IF ~stat.present THEN <<>>
        ELSE IF st.last_cpu_usage # None
        THEN ResolvePendingOps(name, st, throttled_delta)
             \o CpuDecisionOps(dry, name, cpu, st, throttled_delta, suggested)
        ELSE <<OpSet("last_cpu_usage", stat.usage_usec),
               OpSet("last_cpu_throttled", stat.throttled_usec)>>

\* adjust_cpu(name, payload, stats), the policy having answered suggested
AdjustCpuOps(dry, name, payload, st, stat, suggested) ==
    LET cpu == payload.cpu
        throttled_delta == CpuThrottledDelta(st, stat)
    IN  IF ~stat.present THEN <<>>
        ELSE (IF st.last_cpu_usage # None
              THEN ResolvePendingOps(name, st, throttled_delta)
                   \o CpuDecisionOps(dry, name, cpu, st, throttled_delta, suggested)
              ELSE <<>>)
             \o <<OpSet("last_cpu_usage", stat.usage_usec),
                  OpSet("last_cpu_throttled", stat.throttled_usec)>>

\* the dictionary of adjust_cpu carrying the soft quota it started from
CpuMetaSoftBefore(st, stat, soft_after) ==
    [usage_delta |-> CpuUsageDelta(st, stat),
     throttled_delta |-> CpuThrottledDelta(st, stat),
     usage |-> stat.usage_usec, throttled |-> stat.throttled_usec,
     soft |-> st.cpu_soft]

\* the dictionary adjust_cpu returns
CpuMeta(st, stat, soft_after) ==
    [usage_delta |-> CpuUsageDelta(st, stat),
     throttled_delta |-> CpuThrottledDelta(st, stat),
     usage |-> stat.usage_usec, throttled |-> stat.throttled_usec,
     soft |-> soft_after]

AdjustCpu ==
    /\ program = "controller"
    /\ pc = "adjust_cpu"
    /\ LET name == ContainerOrder[cur]
           payload == config[name]
           st == state[name]
       IN  \E stat \in CpuStatReadings :
           \E suggested \in (IF CpuDecides(payload.cpu, st, stat)
                             THEN SuggestCpuSoftLimit(policy_loaded, payload, st)
                             ELSE {None}) :
             LET ops == AdjustCpuOps(dry_run, name, payload, st, stat, suggested) IN
             \E fail \in 0..NumWrites(ops) :
               LET r == Run(ops, fail, st, cgroup[name]) IN
               /\ read' = <<stat>>
               /\ call' = IF policy_loaded /\ CpuDecides(payload.cpu, st, stat)
                          THEN <<[hard_cap |-> payload.cpu.hard_quota_us,
                                  current_soft |-> st.cpu_soft,
                                  result |-> suggested]>>
                          ELSE <<>>
               /\ hist' = IF hist.on
                          THEN [Record(hist, "cpu", stat, r.emitted)
                                  EXCEPT !.fell = CounterFell(st, stat)]
                          ELSE Counted(hist, st, stat, CpuMeta(st, stat, r.st.cpu_soft),
                                       r.exc = "none")
               /\ Finish(name, r, "adjust_memory",
                      [meta EXCEPT !.cpu = <<CpuMeta(st, stat, r.st.cpu_soft)>>])
    /\ samples_sink' = <<>>
    /\ UNCHANGED <<program, dry_run, policy_loaded, samples_path, config, cur, agent>>


\* --------------------------------------------------------- adjust_memory

\* stats["memory_current"]: None when memory.current is missing.
MemoryReadings == {None, 0, 19, 40}

\* the threshold test with > for >=
AboveMemoryThreshold(current_val, soft) == 100 * current_val > 95 * soft

\* current_val >= state.memory_soft * 0.95
AtMemoryThreshold(current_val, soft) == 100 * current_val >= 95 * soft

\* the raise without its clamp at hard_bytes
MemoryNewSoftUnclamped(memory, soft) == soft + memory.adjust_step_bytes

MemoryNewSoft(memory, soft) ==
    Min(soft + memory.adjust_step_bytes, memory.hard_bytes)

\* adjust_memory(name, payload, stats)
AdjustMemoryOps(dry, name, payload, st, current_val) ==
    LET memory == payload.memory
        soft == IF st.memory_soft = None THEN memory.soft_bytes ELSE st.memory_soft
        new_soft == MemoryNewSoft(memory, soft)
    IN  IF current_val = None THEN <<>>
        ELSE (IF st.memory_soft = None
              THEN <<OpSet("memory_soft", memory.soft_bytes)>> ELSE <<>>)
          \o (IF AtMemoryThreshold(current_val, soft) /\ soft < memory.hard_bytes
              THEN <<OpEmit(Event("soft_limit_hit", "memory", name,
                                  [new_soft_bytes |-> new_soft])),
                     OpSet("memory_soft", new_soft)>>
                   \o WriteMemoryLimits(dry, new_soft, memory.hard_bytes)
              ELSE IF current_val >= memory.hard_bytes
              THEN <<OpEmit(Event("hard_limit_hit", "memory", name,
                                  [value |-> current_val]))>>
              ELSE <<>>)

AdjustMemory ==
    /\ program = "controller"
    /\ pc = "adjust_memory"
    /\ LET name == ContainerOrder[cur]
           st == state[name]
       IN  \E current_val \in MemoryReadings :
             LET ops == AdjustMemoryOps(dry_run, name, config[name], st, current_val) IN
             \E fail \in 0..NumWrites(ops) :
               LET r == Run(ops, fail, st, cgroup[name]) IN
               /\ read' = <<current_val>>
               /\ hist' = Record(hist, "mem", current_val, r.emitted)
               /\ Finish(name, r, "adjust_io",
                      [meta EXCEPT !.mem = <<[soft |-> r.st.memory_soft]>>])
    /\ samples_sink' = <<>>
    /\ call' = <<>>
    /\ UNCHANGED <<program, dry_run, policy_loaded, samples_path, config, cur, agent>>

\* -------------------------------------------------------------- adjust_io

\* stats["io_metrics"]: {} when io.stat is missing or has no row for the
\* device, else the row's rbps and wbps (a key that is absent reads as 0).
IoRates == {0, 2, 3}
NoIoMetrics == [present |-> FALSE, rbps |-> 0, wbps |-> 0]
IoReadings ==
    {NoIoMetrics} \cup [present : {TRUE}, rbps : IoRates, wbps : IoRates]

\* the raise of a direction without its cap at the hard limit
IoNewSoftUncapped(soft, hard, step) == soft + step

IoNewSoft(soft, hard, step) == Min(soft + step, hard)

\* adjust_io testing the hard limits with an if of its own, not an elif
AdjustIoOpsHardTestApart(dry, name, payload, st, metrics) ==
    LET io_cfg == payload.io
        hit_r == metrics.rbps >= st.io_soft_rbps /\ st.io_soft_rbps < io_cfg.hard_rbps
        hit_w == metrics.wbps >= st.io_soft_wbps /\ st.io_soft_wbps < io_cfg.hard_wbps
        new_r == IF hit_r
                 THEN IoNewSoft(st.io_soft_rbps, io_cfg.hard_rbps, io_cfg.adjust_step_bps)
                 ELSE st.io_soft_rbps
        new_w == IF hit_w
                 THEN IoNewSoft(st.io_soft_wbps, io_cfg.hard_wbps, io_cfg.adjust_step_bps)
                 ELSE st.io_soft_wbps
    IN  IF ~metrics.present THEN <<>>
        ELSE (IF hit_r \/ hit_w
              THEN <<OpSet("io_soft_rbps", new_r), OpSet("io_soft_wbps", new_w),
                     OpEmit(Event("soft_limit_hit", "io", name,
                                  [new_soft_rbps |-> new_r, new_soft_wbps |-> new_w]))>>
                   \o WriteIoLimit(dry, io_cfg, new_r, new_w)
              ELSE <<>>)
          \o (IF metrics.rbps >= io_cfg.hard_rbps \/ metrics.wbps >= io_cfg.hard_wbps
              THEN <<OpEmit(Event("hard_limit_hit", "io", name,
                                  [rbps |-> metrics.rbps, wbps |-> metrics.wbps]))>>
              ELSE <<>>)

\* adjust_io(name, payload, stats)
AdjustIoOps(dry, name, payload, st, metrics) ==
    LET io_cfg == payload.io
        hit_r == metrics.rbps >= st.io_soft_rbps /\ st.io_soft_rbps < io_cfg.hard_rbps
        hit_w == metrics.wbps >= st.io_soft_wbps /\ st.io_soft_wbps < io_cfg.hard_wbps
        new_r == IF hit_r
                 THEN IoNewSoft(st.io_soft_rbps, io_cfg.hard_rbps, io_cfg.adjust_step_bps)
                 ELSE st.io_soft_rbps
        new_w == IF hit_w
                 THEN IoNewSoft(st.io_soft_wbps, io_cfg.hard_wbps, io_cfg.adjust_step_bps)
                 ELSE st.io_soft_wbps
    IN  IF ~metrics.present THEN <<>>
        ELSE IF hit_r \/ hit_w
        THEN <<OpSet("io_soft_rbps", new_r), OpSet("io_soft_wbps", new_w),
               OpEmit(Event("soft_limit_hit", "io", name,
                            [new_soft_rbps |-> new_r, new_soft_wbps |-> new_w]))>>
             \o WriteIoLimit(dry, io_cfg, new_r, new_w)
        ELSE IF metrics.rbps >= io_cfg.hard_rbps \/ metrics.wbps >= io_cfg.hard_wbps
        THEN <<OpEmit(Event("hard_limit_hit", "io", name,
                            [rbps |-> metrics.rbps, wbps |-> metrics.wbps]))>>
        ELSE <<>>

AdjustIo ==
    /\ program = "controller"
    /\ pc = "adjust_io"
    /\ LET name == ContainerOrder[cur]
           st == state[name]
       IN  \E metrics \in IoReadings :
             LET ops == AdjustIoOps(dry_run, name, config[name], st, metrics) IN
             \E fail \in 0..NumWrites(ops) :
               LET r == Run(ops, fail, st, cgroup[name]) IN
               /\ read' = <<metrics>>
               /\ hist' = Record(hist, "io", metrics, r.emitted)
               /\ Finish(name, r, "record_sample",
                      [meta EXCEPT !.io = <<[soft_rbps |-> r.st.io_soft_rbps,
                                             soft_wbps |-> r.st.io_soft_wbps]>>])
    /\ samples_sink' = <<>>
    /\ UNCHANGED <<program, dry_run, policy_loaded, samples_path, config, cur, agent, call>>

\* ------------------------------------------------- record_training_sample

Sample(name, payload, m) ==
    [source |-> "controller", container |-> name,
     cpu |-> [soft_quota_us |-> m.cpu[1].soft,
              hard_quota_us |-> payload.cpu.hard_quota_us,
              usage_usec |-> m.cpu[1].usage,
              usage_delta_usec |-> m.cpu[1].usage_delta,
              throttled_usec |-> m.cpu[1].throttled,
              throttled_delta_usec |-> m.cpu[1].throttled_delta],
     memory |-> [soft_bytes |-> m.mem[1].soft,
                 hard_bytes |-> payload.memory.hard_bytes],
     io |-> [soft_rbps |-> m.io[1].soft_rbps, soft_wbps |-> m.io[1].soft_wbps,
             hard_rbps |-> payload.io.hard_rbps, hard_wbps |-> payload.io.hard_wbps]]

\* record_training_sample, then the next container of the for loop or the
\* sleep that ends the iteration
RecordTrainingSample ==
    /\ program = "controller"
    /\ pc = "record_sample"
    /\ LET name == ContainerOrder[cur] IN
       samples_sink' = IF dry_run \/ ~samples_path THEN <<>>
                       ELSE <<Sample(name, config[name], meta)>>
    /\ IF cur < Len(ContainerOrder)
       THEN cur' = cur + 1 /\ pc' = "ensure_base"
       ELSE cur' = cur /\ pc' = "sleep"
    /\ meta' = NoMeta
    /\ hist' = NewIteration(hist)
    /\ written' = <<>>
    /\ read' = <<>>
    /\ Emit(<<>>)
    /\ UNCHANGED <<program, dry_run, policy_loaded, samples_path, config, state,
                   cgroup, agent, call, error>>

\* time.sleep(self.interval), then the next iteration of while True
Sleep ==
    /\ program = "controller"
    /\ pc = "sleep"
    /\ pc' = "ensure_base"
    /\ cur' = 1
    /\ written' = <<>>
    /\ read' = <<>>
    /\ Emit(<<>>)
    /\ samples_sink' = <<>>
    /\ UNCHANGED <<program, dry_run, policy_loaded, samples_path, config, state,
                   meta, cgroup, hist, agent, call, error>>

\* ----------------------------------------------------------- the system

\* How the controller is launched: --dry-run or not, ml.model_path naming an
\* existing model or not, metrics.samples_sink configured or not.  An
\* unconfigured sample journal is tried in the plain live mode only: the one
\* statement that reads samples_path reads nothing of the policy, and
\* returns before reading it in dry-run.
LaunchModes ==
    [dry_run : BOOLEAN, policy_loaded : BOOLEAN, samples_path : {TRUE}]
    \cup {[dry_run |-> FALSE, policy_loaded |-> FALSE, samples_path |-> FALSE]}

\* Controller.__init__ and the start of run(), the configuration file
\* holding payloads of configs
ControllerInitOn(configs) ==
    /\ program = "controller"
    /\ \E mode \in LaunchModes :
          /\ dry_run = mode.dry_run
          /\ samples_path = mode.samples_path
          /\ policy_loaded = mode.policy_loaded
    /\ config \in [Containers -> configs]
    /\ pc = "ensure_base"
    /\ cur = 1
    /\ state = <<>>
    /\ meta = NoMeta
    /\ cgroup = [c \in Containers |-> NoFiles]
    /\ written = <<>>
    /\ events_sink = <<>>
    /\ stdout = <<>>
    /\ samples_sink = <<>>
    /\ read = <<>>
    /\ agent = NewAgent
    /\ call = <<>>
    /\ error = "none"

ControllerInit == ControllerInitOn(ContainerConfigs)

\* ---------------------------------------------------------------- observer

\* PSI_FILES, in iteration order
PsiResources == <<"cpu", "memory", "io">>

\* /proc/pressure/<resource>: missing, or the avg10 of its some and full
\* lines, in hundredths (parse_psi also parses avg60 and avg300, which
\* nothing reads).
NoPsi == [present |-> FALSE, some_avg10 |-> 0, full_avg10 |-> 0]
PsiReadings ==
    {NoPsi} \cup [present : {TRUE}, some_avg10 : {19, 20}, full_avg10 : {9, 10}]

\* check_system_pressure, one resource of its for loop
PsiOps(resource, data) ==
    IF ~data.present THEN <<>>
    ELSE (IF data.some_avg10 >= 20
          THEN <<OpEmit(Event("psi_warning", resource, "", [avg10 |-> data.some_avg10]))>>
          ELSE <<>>)
      \o (IF data.full_avg10 >= 10
          THEN <<OpEmit(Event("psi_stall", resource, "", [avg10 |-> data.full_avg10]))>>
          ELSE <<>>)

\* What an observer step leaves behind.
AgentEvents(ops) == Run(ops, 0, NewResourceState, NoFiles).emitted
AgentFinish(ops, next_agent) ==
    /\ Emit(AgentEvents(ops))
    /\ agent' = next_agent
    /\ written' = <<>>
    /\ samples_sink' = <<>>
    /\ UNCHANGED <<program, dry_run, policy_loaded, samples_path, config, state,
                   meta, cgroup, call, error>>

\* The file being read exists and does not parse: parse_psi,
\* parse_key_value, int() or pair.split("=") raises (ValueError, or IndexError
\* / KeyError in parse_psi) before the handler has emitted or remembered
\* anything, and neither run() nor main() catches it.
AgentParseError ==
    /\ pc' = "crashed"
    /\ error' = "ValueError"
    /\ Emit(<<>>)
    /\ written' = <<>>
    /\ samples_sink' = <<>>
    /\ read' = <<>>
    /\ UNCHANGED <<program, dry_run, policy_loaded, samples_path, config, cur, state,
                   meta, cgroup, hist, agent, call>>

CheckSystemPressure ==
    /\ program = "agent"
    /\ pc = "check_system_pressure"
    /\ \/ AgentParseError
       \/ /\ \E data \in PsiReadings :
                /\ AgentFinish(PsiOps(PsiResources[cur], data), agent)
                /\ read' = <<data>>
          /\ IF cur < Len(PsiResources)
             THEN cur' = cur + 1 /\ pc' = pc
             ELSE cur' = 1 /\ pc' = "detect_memory_events"
          /\ UNCHANGED hist

\* memory.events: the five counters the observer looks at, in the order of
\* its for loop.
MemoryEventKeys == <<"low", "high", "max", "oom", "oom_kill">>
MaxEvents == 1
NoMemoryEvents == <<>>
\* missing, or a file with the five counters of which at most one is not 0
MemoryEventsReadings ==
    LET keys == {MemoryEventKeys[i] : i \in 1..Len(MemoryEventKeys)} IN
    {NoMemoryEvents} \cup
    {f \in [keys -> 0..MaxEvents] : Cardinality({k \in keys : f[k] # 0}) <= 1}

\* dict.get(key, 0) on a dictionary of integer counters
Get(dict, key) == IF key \in DOMAIN dict THEN dict[key] ELSE 0
\* self.last_x.get(name, {})
GetDict(dicts, name) == IF name \in DOMAIN dicts THEN dicts[name] ELSE <<>>

\* every key reported as memory_event
MemoryEventTypePlain(key) == "memory_event"

MemoryEventType(key) ==
    IF key \in {"oom", "oom_kill"} THEN "memory_critical" ELSE "memory_event"

\* delta = current - int(previous.get(key, 0))
CounterDelta(current, previous) == current - previous

RECURSIVE MemoryEventOps(_, _, _, _)
MemoryEventOps(name, stats, previous, keys) ==
    IF keys = <<>> THEN <<>>
    ELSE LET key == Head(keys)
             delta == CounterDelta(Get(stats, key), Get(previous, key))
         IN  (IF delta > 0
              THEN <<OpEmit(Event(MemoryEventType(key), "memory", name,
                                  [event |-> key, count |-> delta]))>>
              ELSE <<>>)
             \o MemoryEventOps(name, stats, previous, Tail(keys))

\* check_cgroup_stats: if memory_events.exists(): detect_memory_events(name, path)
DetectMemoryEvents ==
    /\ program = "agent"
    /\ pc = "detect_memory_events"
    /\ \/ AgentParseError
       \/ /\ LET name == ContainerOrder[cur] IN
             \E stats \in MemoryEventsReadings :
                /\ read' = <<stats>>
                /\ IF stats = NoMemoryEvents
                   THEN AgentFinish(<<>>, agent)
                   ELSE AgentFinish(
                          MemoryEventOps(name, stats,
                                         GetDict(agent.last_memory_events, name),
                                         MemoryEventKeys),
                          [agent EXCEPT !.last_memory_events = (name :> stats) @@ @])
                /\ hist' = IF hist.on
                           THEN [hist EXCEPT !.based =
                                    /\ stats # NoMemoryEvents
                                    /\ name \in DOMAIN agent.last_memory_events]
                           ELSE hist
          /\ pc' = "detect_cpu_throttle"
          /\ UNCHANGED cur

\* cpu.stat as the observer reads it: missing, or its nr_throttled
NoThrottleStat == [present |-> FALSE, nr_throttled |-> 0]
ThrottleReadings ==
    {NoThrottleStat} \cup [present : {TRUE}, nr_throttled : 0..MaxCounter]

\* detect_cpu_throttle(name, path)
CpuThrottleOps(name, throttled, last) ==
    LET delta == CounterDelta(throttled, last) IN
    IF delta > 0
    THEN <<OpEmit(Event("cpu_throttle", "cpu", name,
                        [delta |-> delta, total |-> throttled]))>>
    ELSE <<>>

DetectCpuThrottle ==
    /\ program = "agent"
    /\ pc = "detect_cpu_throttle"
    /\ \/ AgentParseError
       \/ /\ LET name == ContainerOrder[cur] IN
             \E stats \in ThrottleReadings :
                LET ops == IF stats.present
                           THEN CpuThrottleOps(name, stats.nr_throttled,
                                               Get(agent.last_cpu_throttled, name))
                           ELSE <<>>
                IN  /\ read' = <<stats>>
                    /\ hist' = Record(hist, "cpu", stats, AgentEvents(ops))
                    /\ AgentFinish(ops,
                          IF stats.present
                          THEN [agent EXCEPT !.last_cpu_throttled =
                                                 (name :> stats.nr_throttled) @@ @]
                          ELSE agent)
          /\ pc' = "detect_io_slowdown"
          /\ UNCHANGED cur

\* io.stat as the observer reads it: missing, or one row per device, each
\* row giving every key of IoStatKeys (the keys whose name ends in "wait"
\* are IoWaitKeys); a second device, when there is one, reports OtherDevice.
IoStatKeys == {"rbytes", "wait"}
IoWaitKeys == {"wait"}
MaxIoStat == 1
IoRows == [IoStatKeys -> 0..MaxIoStat]
OtherDevice == [k \in IoStatKeys |-> 1]
NoIoStat == [present |-> FALSE, rows |-> <<>>]
IoStatReadings ==
    {NoIoStat} \cup
    [present : {TRUE}, rows : {<<>>} \cup {<<r>> : r \in IoRows}
                              \cup {<<r, OtherDevice>> : r \in IoRows}]

\* stats[k] = stats.get(k, 0) + int(v), over the rows
RECURSIVE SumRows(_)
SumRows(rows) ==
    IF rows = <<>> THEN [k \in IoStatKeys |-> 0]
    ELSE [k \in IoStatKeys |-> Head(rows)[k] + SumRows(Tail(rows))[k]]

\* deltas = {k: stats.get(k, 0) - previous.get(k, 0) for k in stats}
IoDeltas(stats, previous) ==
    [k \in DOMAIN stats |-> CounterDelta(stats[k], Get(previous, k))]

\* detect_io_slowdown(name, path)
IoSlowdownOps(name, stats, previous) ==
    LET deltas == IoDeltas(stats, previous) IN
    IF \E k \in DOMAIN deltas : k \in IoWaitKeys /\ deltas[k] > 0
    THEN <<OpEmit(Event("io_pressure", "io", name, [deltas |-> deltas]))>>
    ELSE <<>>

DetectIoSlowdown ==
    /\ program = "agent"
    /\ pc = "detect_io_slowdown"
    /\ \/ AgentParseError
       \/ /\ LET name == ContainerOrder[cur] IN
             \E file \in IoStatReadings :
                /\ read' = <<file>>
                /\ IF ~file.present \/ file.rows = <<>>
                   THEN AgentFinish(<<>>, agent)
                   ELSE LET stats == SumRows(file.rows) IN
                        AgentFinish(IoSlowdownOps(name, stats,
                                                  GetDict(agent.last_io_stat, name)),
                                    [agent EXCEPT !.last_io_stat = (name :> stats) @@ @])
          /\ IF cur < Len(ContainerOrder)
             THEN cur' = cur + 1 /\ pc' = "detect_memory_events"
             ELSE cur' = cur /\ pc' = "agent_record_sample"
          /\ UNCHANGED hist

\* PressureAgent.record_training_sample (the snapshots it carries are the
\* raw readings and are not modelled)
AgentRecordTrainingSample ==
    /\ program = "agent"
    /\ pc = "agent_record_sample"
    /\ Emit(<<>>)
    /\ samples_sink' = IF dry_run \/ ~samples_path THEN <<>>
                       ELSE <<[source |-> "agent"]>>
    /\ pc' = "agent_sleep"
    /\ written' = <<>>
    /\ read' = <<>>
    /\ hist' = NewIteration(hist)
    /\ UNCHANGED <<program, dry_run, policy_loaded, samples_path, config, cur, state,
                   meta, cgroup, agent, call, error>>

\* time.sleep(self.interval), then the next iteration of while True
AgentSleep ==
    /\ program = "agent"
    /\ pc = "agent_sleep"
    /\ pc' = "check_system_pressure"
    /\ cur' = 1
    /\ Emit(<<>>)
    /\ samples_sink' = <<>>
    /\ written' = <<>>
    /\ read' = <<>>
    /\ UNCHANGED <<program, dry_run, policy_loaded, samples_path, config, state,
                   meta, cgroup, hist, agent, call, error>>

\* PressureAgent.__init__ and the start of run(); the observer reads neither
\* the limits of the payloads nor ml.model_path.
AgentInit ==
    /\ program = "agent"
    /\ \E mode \in LaunchModes :
          /\ dry_run = mode.dry_run
          /\ samples_path = mode.samples_path
          /\ policy_loaded = FALSE
    /\ config = [c \in Containers |-> [cpu |-> ValidCpu, memory |-> ValidMemory, io |-> ValidIo]]
    /\ pc = "check_system_pressure"
    /\ cur = 1
    /\ state = <<>>
    /\ meta = NoMeta
    /\ cgroup = [c \in Containers |-> NoFiles]
    /\ written = <<>>
    /\ events_sink = <<>>
    /\ stdout = <<>>
    /\ samples_sink = <<>>
    /\ read = <<>>
    /\ agent = NewAgent
    /\ call = <<>>
    /\ error = "none"

AgentNext ==
    \/ CheckSystemPressure
    \/ DetectMemoryEvents
    \/ DetectCpuThrottle
    \/ DetectIoSlowdown
    \/ AgentRecordTrainingSample
    \/ AgentSleep

\* ------------------------------------------------- the policy on its own

\* SoftLimitPolicy.suggest applied to arbitrary arguments
PolicyInit ==
    /\ program = "policy"
    /\ dry_run = FALSE
    /\ samples_path = FALSE
    /\ policy_loaded = TRUE
    /\ config = [c \in Containers |-> [cpu |-> ValidCpu, memory |-> ValidMemory, io |-> ValidIo]]
    /\ pc = "suggest"
    /\ cur = 1
    /\ state = <<>>
    /\ meta = NoMeta
    /\ cgroup = [c \in Containers |-> NoFiles]
    /\ written = <<>>
    /\ events_sink = <<>>
    /\ stdout = <<>>
    /\ samples_sink = <<>>
    /\ read = <<>>
    /\ hist = NoHistory
    /\ agent = NewAgent
    /\ call = <<>>
    /\ error = "none"

PolicySuggest ==
    /\ program = "policy"
    /\ \E pred \in Predictions, hard_cap \in 0..MaxPred, current_soft \in {None} \cup 0..MaxPred :
          call' = <<[pred |-> pred, hard_cap |-> hard_cap, current_soft |-> current_soft,
                     result |-> Suggest(pred, hard_cap, current_soft)]>>
    /\ UNCHANGED <<program, dry_run, policy_loaded, samples_path, config, pc, cur, state,
                   meta, cgroup, written, events_sink, stdout, samples_sink, read, hist,
                   agent, error>>

PolicyNext == PolicySuggest

Init == (ControllerInit \/ AgentInit) /\ hist = NoHistory

\* One live program on the valid payload, with the history recorded.
TrackedInit ==
    /\ \/ ControllerInit /\ ~policy_loaded
       \/ AgentInit
    /\ config = [c \in Containers |-> [cpu |-> ValidCpu, memory |-> ValidMemory, io |-> ValidIo]]
    /\ ~dry_run /\ samples_path
    /\ hist = [NoHistory EXCEPT !.on = TRUE]

ControllerNext ==
    \/ EnsureBaseLimits
    \/ CollectStats
    \/ AdjustCpu
    \/ AdjustMemory
    \/ AdjustIo
    \/ RecordTrainingSample
    \/ Sleep

Next == ControllerNext \/ AgentNext

Spec == Init /\ [][Next]_vars

SpecTracked == TrackedInit /\ [][Next]_vars

SpecPolicy == PolicyInit /\ [][PolicyNext]_vars

\* The controller alone, in every launch mode, on the payloads whose I/O
\* limits are in order: the valid one and the two that ensure_base_limits
\* rejects.
OrderedIoConfigs ==
    {c \in ContainerConfigs :
        c.io.soft_rbps <= c.io.hard_rbps /\ c.io.soft_wbps <= c.io.hard_wbps}
ControllerAloneInit ==
    /\ ControllerInitOn(OrderedIoConfigs)
    /\ hist = NoHistory

SpecController == ControllerAloneInit /\ [][ControllerNext]_vars

\* The live controller without a model on payloads with soft <= hard
\* throughout, the CPU soft
\* quota two raises below the hard quota or one raise below it, with the
\* cpu.stat history counted.
CountedConfigs ==
    { [cpu |-> ValidCpu, memory |-> ValidMemory, io |-> ValidIo],
      [cpu |-> CpuCfg(2, 4, 2, <<>>), memory |-> ValidMemory, io |-> ValidIo] }
CountedInit ==
    /\ ControllerInitOn(CountedConfigs)
    /\ ~dry_run /\ samples_path /\ ~policy_loaded
    /\ hist = [NoHistory EXCEPT !.count = TRUE]

SpecCounted == CountedInit /\ [][ControllerNext]_vars

\* ------------------------------------------------------------- properties

\* the events the last step emitted, wherever emit() sent them
Emitted == events_sink \o stdout
HasEvent(events, type) == \E i \in 1..Len(events) : events[i].type = type
CountEvents(events, types) ==
    Cardinality({i \in 1..Len(events) : events[i].type \in types})
HasResourceEvent(events, types, resource) ==
    \E i \in 1..Len(events) :
        events[i].type \in types /\ events[i].resource = resource

Within(soft, hard) == soft = None \/ soft <= hard
SoftFields == {"cpu_soft", "memory_soft", "io_soft_rbps", "io_soft_wbps"}
AdjustSteps == {"adjust_cpu", "adjust_memory", "adjust_io"}
Untouched == \A n \in Containers : cgroup[n] = NoFiles

\* C1: in every controller state, for every container that has a
\* ResourceState, each applied soft limit (CPU quota, memory bytes, I/O read
\* bps, I/O write bps) that is set is at most the configured hard limit.
C1_AppliedSoftWithinHard ==
    program = "controller" =>
        \A n \in DOMAIN state :
            /\ Within(state[n].cpu_soft, config[n].cpu.hard_quota_us)
            /\ Within(state[n].memory_soft, config[n].memory.hard_bytes)
            /\ Within(state[n].io_soft_rbps, config[n].io.hard_rbps)
            /\ Within(state[n].io_soft_wbps, config[n].io.hard_wbps)

\* C2: no step of a controller run lowers an applied soft value (cpu_soft,
\* memory_soft, io_soft_rbps, io_soft_wbps) of any container, whatever is
\* read and whatever the policy answers.
C2_SoftNeverDecreases ==
    [][\A n \in DOMAIN state : \A f \in SoftFields : state'[n][f] >= state[n][f]]_vars

\* C2 happens: every applied soft value of a container stands above its
\* configured soft limit, the CPU one by the policy's answer.
C2_EverySoftRaised ==
    /\ program = "controller"
    /\ policy_loaded
    /\ \E n \in DOMAIN state :
          /\ state[n].pending_eval # NoEval
          /\ state[n].cpu_soft > config[n].cpu.soft_quota_us
          /\ state[n].memory_soft > config[n].memory.soft_bytes
          /\ state[n].io_soft_rbps > config[n].io.soft_rbps
          /\ state[n].io_soft_wbps > config[n].io.soft_wbps

\* C3: a step that emits ml_adjustment leaves pending_eval set to the quota
\* it wrote; the next adjust_cpu of the container that reads a cpu.stat emits
\* exactly one of ml_effective / ml_no_improvement and leaves pending_eval
\* cleared, or set afresh by a new ml_adjustment emitted after the
\* resolution; no step emits a resolution without a pending_eval, and no
\* other step changes a pending_eval.
C3_PendingEvalResolvedOnce ==
    [][program = "controller" =>
         LET n == ContainerOrder[cur]
             out == events_sink' \o stdout'
             resolutions == CountEvents(out, {"ml_effective", "ml_no_improvement"})
             pending == IF n \in DOMAIN state THEN state[n].pending_eval ELSE NoEval
             observed == pc = "adjust_cpu" /\ read'[1].present
         IN  /\ HasEvent(out, "ml_adjustment") =>
                   /\ state'[n].pending_eval # NoEval
                   /\ state'[n].pending_eval.new_soft = state'[n].cpu_soft
                   /\ out[Len(out)].type = "ml_adjustment"
                   /\ CountEvents(out, {"ml_adjustment"}) = 1
                   /\ dry_run \/ written' = <<"cpu.max">>
             /\ (pending # NoEval /\ observed) =>
                   /\ resolutions = 1
                   /\ out[1].type \in {"ml_effective", "ml_no_improvement"}
                   /\ out[1].data.applied_soft_quota_us = pending.new_soft
                   /\ state'[n].pending_eval = NoEval \/ HasEvent(out, "ml_adjustment")
             /\ resolutions > 0 => pending # NoEval /\ observed
             /\ (pending # NoEval /\ ~observed) => state'[n].pending_eval = pending
    ]_vars

\* C3 happens: an adjust_cpu resolved the pending ml_adjustment as
\* ml_no_improvement and emitted the next ml_adjustment.
C3_ResolvedThenAdjustedAgain ==
    /\ HasEvent(Emitted, "ml_no_improvement")
    /\ HasEvent(Emitted, "ml_adjustment")

\* C4: an adjustment whose cgroup write fails emits an error event and
\* leaves every applied soft value of the container as it was before the
\* adjustment.
C4_FailedWriteKeepsSoft ==
    [][(program = "controller" /\ pc \in AdjustSteps /\ error' = "OSError") =>
         LET n == ContainerOrder[cur] IN
         /\ HasEvent(events_sink' \o stdout', "error")
         /\ \A f \in SoftFields : state'[n][f] = state[n][f]
    ]_vars

\* C5: a cgroup write failure does not end the controller loop.
C5_WriteFailureNotFatal ==
    (program = "controller" /\ error = "OSError") => pc # "crashed"

\* C6 as stated: an iteration in which every statistics reading equalled the
\* reading of the same file one iteration earlier has emitted no
\* soft_limit_hit, no hard_limit_hit and no cpu_throttle once its readings
\* are consumed.
C6_UnchangedReadingsEmitNothing ==
    (hist.on /\ pc \in {"record_sample", "agent_record_sample"} /\ hist.same)
        => ~hist.hit

\* C6 amended: a step that consumes a cpu.stat reading equal to the cpu.stat
\* reading of the previous iteration (adjust_cpu in the controller,
\* detect_cpu_throttle in the observer) emits no soft_limit_hit, no
\* hard_limit_hit and no cpu_throttle.
C6_UnchangedCpuStatEmitsNothing ==
    (hist.on /\ hist.file = "cpu" /\ hist.same) => ~hist.hit

\* C6 happens: adjust_cpu consumed a cpu.stat with a positive throttled_usec
\* that equals the previous reading, the soft quota being below the hard one.
C6_SameThrottledReadAgain ==
    /\ hist.on /\ hist.file = "cpu" /\ hist.same
    /\ program = "controller"
    /\ hist.cpu[1].present
    /\ hist.cpu[1].throttled_usec > 0
    /\ state[ContainerOrder[cur]].cpu_soft < config[ContainerOrder[cur]].cpu.hard_quota_us

\* C7: the observer's first read of a container's memory.events, cpu.stat or
\* io.stat emits no memory_event / memory_critical, cpu_throttle or
\* io_pressure, and the controller's first read of a cpu.stat emits no CPU
\* soft_limit_hit or hard_limit_hit.
C7_FirstReadEmitsNothing ==
    [][LET n == ContainerOrder[cur]
           out == events_sink' \o stdout'
       IN  /\ (program = "agent" /\ pc = "detect_memory_events"
                /\ n \notin DOMAIN agent.last_memory_events)
                  => CountEvents(out, {"memory_event", "memory_critical"}) = 0
           /\ (program = "agent" /\ pc = "detect_cpu_throttle"
                /\ n \notin DOMAIN agent.last_cpu_throttled)
                  => ~HasEvent(out, "cpu_throttle")
           /\ (program = "agent" /\ pc = "detect_io_slowdown"
                /\ n \notin DOMAIN agent.last_io_stat)
                  => ~HasEvent(out, "io_pressure")
           /\ (program = "controller" /\ pc = "adjust_cpu"
                /\ state[n].last_cpu_usage = None)
                  => ~HasResourceEvent(out, {"soft_limit_hit", "hard_limit_hit"}, "cpu")
    ]_vars

\* C8: a value V returned by SoftLimitPolicy.suggest satisfies
\* current_soft < V and V <= hard_cap.
C8_SuggestionAboveSoftWithinCap ==
    \A i \in 1..Len(call) :
        call[i].result # None =>
            /\ call[i].current_soft < call[i].result
            /\ call[i].result <= call[i].hard_cap

\* C9: in dry-run no step of the controller or of the observer writes a
\* cgroup file, an event-journal line or a sample-journal line.
C9_DryRunWritesNothing ==
    dry_run => /\ written = <<>>
               /\ events_sink = <<>>
               /\ samples_sink = <<>>
               /\ Untouched

\* C9 happens: a dry-run controller with a pid to attach decided a raise
\* and printed it.
C9_DryRunRaise ==
    /\ dry_run
    /\ program = "controller"
    /\ HasEvent(stdout, "soft_limit_hit")
    /\ \E n \in DOMAIN state :
          /\ config[n].cpu.pids # <<>>
          /\ state[n].cpu_soft > config[n].cpu.soft_quota_us

\* C10: with a container whose configuration has a soft limit above its hard
\* limit, the controller never gets past ensure_base_limits of its first
\* container, writes no cgroup file and, if it stopped, stopped on the
\* configuration error.
C10_InvalidConfigFatalAtStartup ==
    (program = "controller" /\ \E n \in Containers : ~SoftLeHard(config[n])) =>
        /\ Untouched
        /\ \/ pc = "ensure_base" /\ state = <<>>
           \/ pc = "crashed" /\ error = "ValueError"

\* C11: a controller adjustment whose statistics file is missing (cpu.stat
\* for adjust_cpu, memory.current for adjust_memory, io.stat for adjust_io)
\* writes no cgroup file, emits no event and leaves the container's
\* ResourceState, applied soft values and remembered counters included, as
\* it was.
C11_MissingFileNoEffect ==
    [][program = "controller" =>
         LET n == ContainerOrder[cur]
             nothing == /\ written' = <<>>
                        /\ events_sink' \o stdout' = <<>>
                        /\ cgroup' = cgroup
                        /\ state'[n] = state[n]
                        /\ error' = "none"
         IN  /\ (pc = "adjust_cpu" /\ ~read'[1].present) => nothing
             /\ (pc = "adjust_memory" /\ read'[1] = None) => nothing
             /\ (pc = "adjust_io" /\ ~read'[1].present) => nothing
    ]_vars

\* C11 happens: adjust_cpu found no cpu.stat while counters were remembered
\* and an ml_adjustment was waiting for its evaluation.
C11_MissingCpuStatWhilePending ==
    /\ program = "controller"
    /\ pc = "adjust_memory"
    /\ ~read[1].present
    /\ state[ContainerOrder[cur]].last_cpu_throttled > 0
    /\ state[ContainerOrder[cur]].pending_eval # NoEval

\* C12: a statistics file that does not parse never ends the controller or
\* the observer loop: a process stops on a ValueError only for a
\* configuration with a soft limit above its hard limit.
C12_ParseErrorNotFatal ==
    (pc = "crashed" /\ error = "ValueError") =>
        \E n \in Containers : ~SoftLeHard(config[n])

\* C13: when the policy raises during adjust_cpu, the step does not fail and
\* the soft quota becomes min(current_soft + adjust_step_us, hard_quota_us).
C13_PolicyErrorFallsBack ==
    [][(program = "controller" /\ pc = "adjust_cpu"
        /\ call' # <<>> /\ call'[1].result = Raised) =>
         LET n == ContainerOrder[cur] IN
         /\ error' \in {"none", "OSError"}
         /\ state'[n].cpu_soft = Min(state[n].cpu_soft + config[n].cpu.adjust_step_us,
                                     config[n].cpu.hard_quota_us)
    ]_vars

\* C14: an adjust_cpu that observes a positive throttling delta while the
\* applied soft quota equals the hard quota emits hard_limit_hit for CPU,
\* emits no CPU soft_limit_hit, writes no file and leaves cpu_soft unchanged.
C14_AtHardQuotaOnlyReports ==
    [][LET n == ContainerOrder[cur] IN
       (program = "controller" /\ pc = "adjust_cpu"
        /\ read'[1].present
        /\ state[n].last_cpu_usage # None
        /\ read'[1].throttled_usec > state[n].last_cpu_throttled
        /\ state[n].cpu_soft = config[n].cpu.hard_quota_us) =>
         LET out == events_sink' \o stdout' IN
         /\ HasResourceEvent(out, {"hard_limit_hit"}, "cpu")
         /\ ~HasResourceEvent(out, {"soft_limit_hit"}, "cpu")
         /\ written' = <<>>
         /\ cgroup' = cgroup
         /\ state'[n].cpu_soft = state[n].cpu_soft
    ]_vars

\* C14 happens: throttling was observed at the hard quota, right after the
\* evaluation of the ml_adjustment that had brought the soft quota there.
C14_ThrottledAtHardQuota ==
    /\ program = "controller"
    /\ HasResourceEvent(Emitted, {"hard_limit_hit"}, "cpu")
    /\ CountEvents(Emitted, {"ml_effective", "ml_no_improvement"}) = 1

\* C15: for each container the controller runs ensure_base_limits, the
\* reading of the statistics, adjust_cpu, adjust_memory, adjust_io and
\* record_training_sample in this order (unless a step raises); only
\* record_training_sample appends to the sample journal, and with a sample
\* journal configured and outside dry-run it appends exactly one sample, of
\* this container, whose soft_quota_us, soft_bytes, soft_rbps and soft_wbps
\* are the applied soft values of the ResourceState.
C15_OrderedStepsOneSample ==
    [][program = "controller" =>
         LET n == ContainerOrder[cur]
             follows(from, to) == (pc = from) => pc' \in {to, "crashed"}
         IN  /\ follows("ensure_base", "collect_stats")
             /\ follows("collect_stats", "adjust_cpu")
             /\ follows("adjust_cpu", "adjust_memory")
             /\ follows("adjust_memory", "adjust_io")
             /\ follows("adjust_io", "record_sample")
             /\ (pc = "record_sample") => pc' \in {"ensure_base", "sleep"}
             /\ (pc # "record_sample") => samples_sink' = <<>>
             /\ (pc = "record_sample" /\ (dry_run \/ ~samples_path)) => samples_sink' = <<>>
             /\ (pc = "record_sample" /\ ~dry_run /\ samples_path) =>
                   /\ Len(samples_sink') = 1
                   /\ samples_sink'[1].container = n
                   /\ samples_sink'[1].cpu.soft_quota_us = state[n].cpu_soft
                   /\ samples_sink'[1].memory.soft_bytes = state[n].memory_soft
                   /\ samples_sink'[1].io.soft_rbps = state[n].io_soft_rbps
                   /\ samples_sink'[1].io.soft_wbps = state[n].io_soft_wbps
                   /\ state' = state
    ]_vars

\* C15 happens: a sample was recorded whose four soft values all stand above
\* the configured ones.
C15_SampleOfRaisedSofts ==
    /\ program = "controller"
    /\ Len(samples_sink) = 1
    /\ LET n == samples_sink[1].container IN
       /\ samples_sink[1].cpu.soft_quota_us > config[n].cpu.soft_quota_us
       /\ samples_sink[1].memory.soft_bytes > config[n].memory.soft_bytes
       /\ samples_sink[1].io.soft_rbps > config[n].io.soft_rbps
       /\ samples_sink[1].io.soft_wbps > config[n].io.soft_wbps

\* C16: usage_delta_usec and throttled_delta_usec of every controller sample
\* are >= 0, whatever the cpu.stat readings were.
C16_SampleDeltasNonNegative ==
    program = "controller" =>
        \A i \in 1..Len(samples_sink) :
            /\ samples_sink[i].cpu.usage_delta_usec >= 0
            /\ samples_sink[i].cpu.throttled_delta_usec >= 0

\* C16 happens: a sample was recorded for an iteration whose cpu.stat had a
\* counter below the remembered one.
C16_SampleAfterCounterFell ==
    /\ program = "controller"
    /\ hist.fell
    /\ Len(samples_sink) = 1
    /\ samples_sink[1].cpu.usage_usec = 0
    /\ samples_sink[1].cpu.usage_delta_usec = 0

\* soft + step when that is at most hard, else hard
Clamped(soft, step, hard) == IF soft + step > hard THEN hard ELSE soft + step
\* the last step was an adjust_cpu that read a positive throttling delta with
\* the soft quota below the hard quota
ThrottledBelowHard(n, stat, st) ==
    /\ stat.present
    /\ st.last_cpu_usage # None
    /\ stat.throttled_usec > st.last_cpu_throttled
    /\ st.cpu_soft < config[n].cpu.hard_quota_us

\* C17: a heuristic raise (CPU when the policy gave no value, memory, each
\* I/O direction that is hit) sets the applied soft value to exactly
\* soft + adjust_step when that is at most hard and to exactly hard when it
\* is greater.
C17_HeuristicRaiseClamps ==
    [][program = "controller" =>
         LET n == ContainerOrder[cur]
             out == events_sink' \o stdout'
             st == state[n]
             cfg == config[n]
         IN  /\ (pc = "adjust_cpu"
                  /\ HasResourceEvent(out, {"soft_limit_hit"}, "cpu")
                  /\ (call' = <<>> \/ call'[1].result = None)) =>
                   state'[n].cpu_soft =
                       Clamped(st.cpu_soft, cfg.cpu.adjust_step_us, cfg.cpu.hard_quota_us)
             /\ (pc = "adjust_memory"
                  /\ HasResourceEvent(out, {"soft_limit_hit"}, "memory")) =>
                   state'[n].memory_soft =
                       Clamped(st.memory_soft, cfg.memory.adjust_step_bytes,
                               cfg.memory.hard_bytes)
             /\ (pc = "adjust_io"
                  /\ HasResourceEvent(out, {"soft_limit_hit"}, "io")) =>
                   /\ state'[n].io_soft_rbps =
                         IF read'[1].rbps >= st.io_soft_rbps
                            /\ st.io_soft_rbps < cfg.io.hard_rbps
                         THEN Clamped(st.io_soft_rbps, cfg.io.adjust_step_bps,
                                      cfg.io.hard_rbps)
                         ELSE st.io_soft_rbps
                   /\ state'[n].io_soft_wbps =
                         IF read'[1].wbps >= st.io_soft_wbps
                            /\ st.io_soft_wbps < cfg.io.hard_wbps
                         THEN Clamped(st.io_soft_wbps, cfg.io.adjust_step_bps,
                                      cfg.io.hard_wbps)
                         ELSE st.io_soft_wbps
                   /\ state'[n] # st
    ]_vars

\* C17 happens: a memory raise has just stopped at hard_bytes, which no
\* whole number of steps from the configured soft limit reaches.
C17_MemoryRaiseClamped ==
    /\ program = "controller"
    /\ HasResourceEvent(Emitted, {"soft_limit_hit"}, "memory")
    /\ LET n == ContainerOrder[cur] IN
       /\ state[n].memory_soft = config[n].memory.hard_bytes
       /\ (config[n].memory.hard_bytes - config[n].memory.soft_bytes)
             % config[n].memory.adjust_step_bytes # 0

\* C18: on an adjust_cpu with a positive throttling delta and the soft quota
\* below the hard quota, soft_limit_hit is emitted; the new soft quota is the
\* policy's value V when current_soft < V <= hard_quota_us, and
\* min(current_soft + adjust_step_us, hard_quota_us) in every other case;
\* ml_adjustment is emitted and pending_eval set exactly in the first case.
C18_PolicyValueUsedOnlyWhenAbove ==
    [][LET n == ContainerOrder[cur] IN
       (program = "controller" /\ pc = "adjust_cpu"
        /\ ThrottledBelowHard(n, read'[1], state[n])
        /\ (call' = <<>> \/ call'[1].result # Raised)) =>
         LET out == events_sink' \o stdout'
             soft == state[n].cpu_soft
             hard == config[n].cpu.hard_quota_us
             V == IF call' = <<>> THEN None ELSE call'[1].result
             used == V # None /\ soft < V /\ V <= hard
         IN  /\ HasResourceEvent(out, {"soft_limit_hit"}, "cpu")
             /\ state'[n].cpu_soft =
                   IF used THEN V
                   ELSE Min(soft + config[n].cpu.adjust_step_us, hard)
             /\ error' = "none" =>
                   /\ HasEvent(out, "ml_adjustment") <=> used
                   /\ (state'[n].pending_eval # NoEval) <=> used
    ]_vars

\* C19: an adjust_cpu that observes the throttling delta dt while a
\* pending_eval with prev_delta exists emits first, before any event of its
\* own decision, ml_effective if dt < prev_delta and ml_no_improvement
\* otherwise, with improvement = prev_delta - dt; the pending_eval it leaves
\* is cleared, or is the new one of an ml_adjustment decided on dt.
C19_ResolutionByDelta ==
    [][LET n == ContainerOrder[cur] IN
       (program = "controller" /\ pc = "adjust_cpu"
        /\ state[n].pending_eval # NoEval
        /\ read'[1].present) =>
         LET out == events_sink' \o stdout'
             prev == state[n].pending_eval
             dt == Max(read'[1].throttled_usec - state[n].last_cpu_throttled, 0)
         IN  /\ Len(out) >= 1
             /\ out[1].type = IF dt < prev.prev_delta
                               THEN "ml_effective" ELSE "ml_no_improvement"
             /\ out[1].container = n
             /\ out[1].data.previous_delta = prev.prev_delta
             /\ out[1].data.current_delta = dt
             /\ out[1].data.improvement = prev.prev_delta - dt
             /\ \/ state'[n].pending_eval = NoEval
                \/ /\ state'[n].pending_eval.prev_delta = dt
                   /\ Len(out) = 3
                   /\ out[3].type = "ml_adjustment"
    ]_vars

\* C19 happens: an ml_adjustment was found effective, throttling having
\* stopped altogether, and its pending_eval is cleared.
C19_FoundEffective ==
    /\ program = "controller"
    /\ pc = "adjust_memory"
    /\ HasEvent(Emitted, "ml_effective")
    /\ Emitted[1].data.current_delta = 0
    /\ Emitted[1].data.improvement > 0
    /\ state[ContainerOrder[cur]].pending_eval = NoEval

\* C20: an adjust_memory that reads memory.current = current: if
\* current >= 0.95 * soft and soft < hard_bytes, it emits soft_limit_hit,
\* sets memory_soft to min(soft + adjust_step_bytes, hard_bytes) and (outside
\* dry-run, the writes succeeding) writes memory.high with the new soft and
\* memory.max with hard_bytes; otherwise, if current >= hard_bytes, it emits
\* hard_limit_hit and writes nothing; otherwise it emits and writes nothing.
C20_MemoryRule ==
    [][LET n == ContainerOrder[cur] IN
       (program = "controller" /\ pc = "adjust_memory" /\ read'[1] # None) =>
         LET out == events_sink' \o stdout'
             current == read'[1]
             soft == state[n].memory_soft
             hard == config[n].memory.hard_bytes
             new_soft == Min(soft + config[n].memory.adjust_step_bytes, hard)
         IN  IF 100 * current >= 95 * soft /\ soft < hard
             THEN /\ Len(out) = 1
                  /\ out[1].type = "soft_limit_hit"
                  /\ out[1].resource = "memory"
                  /\ out[1].data.new_soft_bytes = new_soft
                  /\ state'[n] = [state[n] EXCEPT !.memory_soft = new_soft]
                  /\ dry_run => written' = <<>> /\ cgroup' = cgroup
                  /\ (~dry_run /\ error' = "none") =>
                        /\ written' = <<"memory.high", "memory.max">>
                        /\ cgroup'[n] = [cgroup[n] EXCEPT !["memory.high"] = <<new_soft>>,
                                                          !["memory.max"] = <<hard>>]
             ELSE /\ written' = <<>>
                  /\ cgroup' = cgroup
                  /\ state' = state
                  /\ IF current >= hard
                     THEN /\ Len(out) = 1
                          /\ out[1].type = "hard_limit_hit"
                          /\ out[1].resource = "memory"
                     ELSE out = <<>>
    ]_vars

\* C20 happens: memory.current stood exactly at 0.95 * soft and the raise
\* was written.
C20_RaisedAtThreshold ==
    /\ program = "controller"
    /\ pc = "adjust_io"
    /\ read # <<None>>
    /\ 100 * read[1] = 95 * config[ContainerOrder[cur]].memory.soft_bytes
    /\ written = <<"memory.high", "memory.max">>
    /\ HasResourceEvent(Emitted, {"soft_limit_hit"}, "memory")

\* C21: an adjust_io that reads the device's row decides each direction on
\* its own: a direction becomes min(soft + adjust_step_bps, hard) iff its
\* rate >= its applied soft and its applied soft < its hard, and keeps its
\* value otherwise.  If a direction was raised, exactly one soft_limit_hit is
\* emitted and (outside dry-run, the write succeeding) io.max is written once
\* with both limits; otherwise nothing is written and hard_limit_hit is
\* emitted iff a rate is >= its hard limit.
C21_IoRule ==
    [][LET n == ContainerOrder[cur] IN
       (program = "controller" /\ pc = "adjust_io" /\ read'[1].present) =>
         LET out == events_sink' \o stdout'
             io == config[n].io
             st == state[n]
             hit_r == read'[1].rbps >= st.io_soft_rbps /\ st.io_soft_rbps < io.hard_rbps
             hit_w == read'[1].wbps >= st.io_soft_wbps /\ st.io_soft_wbps < io.hard_wbps
             new_r == IF hit_r THEN Min(st.io_soft_rbps + io.adjust_step_bps, io.hard_rbps)
                      ELSE st.io_soft_rbps
             new_w == IF hit_w THEN Min(st.io_soft_wbps + io.adjust_step_bps, io.hard_wbps)
                      ELSE st.io_soft_wbps
         IN  /\ state'[n] = [st EXCEPT !.io_soft_rbps = new_r, !.io_soft_wbps = new_w]
             /\ IF hit_r \/ hit_w
                THEN /\ Len(out) = 1
                     /\ out[1].type = "soft_limit_hit"
                     /\ out[1].resource = "io"
                     /\ out[1].data = [new_soft_rbps |-> new_r, new_soft_wbps |-> new_w]
                     /\ dry_run => written' = <<>> /\ cgroup' = cgroup
                     /\ (~dry_run /\ error' = "none") =>
                           /\ written' = <<"io.max">>
                           /\ cgroup'[n] = [cgroup[n] EXCEPT
                                               !["io.max"] = <<io.device, new_r, new_w>>]
                ELSE /\ written' = <<>>
                     /\ cgroup' = cgroup
                     /\ IF read'[1].rbps >= io.hard_rbps \/ read'[1].wbps >= io.hard_wbps
                        THEN /\ Len(out) = 1
                             /\ out[1].type = "hard_limit_hit"
                             /\ out[1].resource = "io"
                        ELSE out = <<>>
    ]_vars

\* C21 happens: one io.max line was written that raises the read limit and
\* carries the write limit as it was configured.
C21_OneDirectionRaised ==
    /\ program = "controller"
    /\ pc = "record_sample"
    /\ written = <<"io.max">>
    /\ LET n == ContainerOrder[cur] IN
       /\ state[n].io_soft_rbps > config[n].io.soft_rbps
       /\ state[n].io_soft_wbps = config[n].io.soft_wbps
       /\ cgroup[n]["io.max"] =
             <<config[n].io.device, state[n].io_soft_rbps, state[n].io_soft_wbps>>

\* C22: when the observer reads the memory.events of a container that has a
\* baseline, it emits, for each of low, high, max, oom, oom_kill, exactly one
\* event if that key's value is above the remembered one and none otherwise;
\* the event's count is the increase and its type is memory_event for
\* low/high/max and memory_critical for oom/oom_kill; the remembered values
\* become the values read.
C22_MemoryEventPerIncrease ==
    [][LET n == ContainerOrder[cur] IN
       (program = "agent" /\ pc = "detect_memory_events" /\ pc' # "crashed"
        /\ n \in DOMAIN agent.last_memory_events
        /\ read'[1] # NoMemoryEvents) =>
         LET out == events_sink' \o stdout'
             now == read'[1]
             before == agent.last_memory_events[n]
             about(key) == {i \in 1..Len(out) : out[i].data.event = key}
         IN  /\ \A key \in DOMAIN now :
                   IF now[key] > before[key]
                   THEN /\ Cardinality(about(key)) = 1
                        /\ \A i \in about(key) :
                              /\ out[i].data.count = now[key] - before[key]
                              /\ out[i].container = n
                              /\ out[i].type = IF key \in {"oom", "oom_kill"}
                                               THEN "memory_critical"
                                               ELSE "memory_event"
                   ELSE about(key) = {}
             /\ \A i \in 1..Len(out) : out[i].data.event \in DOMAIN now
             /\ agent'.last_memory_events[n] = now
    ]_vars

\* C22 happens: with a baseline remembered, oom_kill was read one higher
\* and one memory_critical with count 1 was emitted.
C22_OomKillAfterBaseline ==
    /\ program = "agent"
    /\ pc = "detect_cpu_throttle"
    /\ hist.based
    /\ Len(Emitted) = 1
    /\ Emitted[1].type = "memory_critical"
    /\ Emitted[1].data = [event |-> "oom_kill", count |-> 1]

\* C23: no payload the observer emits carries a negative delta: the count
\* of a memory event, the delta of a cpu_throttle and every entry of the
\* delta map of an io_pressure are >= 0.
C23_NoNegativeDeltaEmitted ==
    program = "agent" =>
        \A i \in 1..Len(Emitted) :
            /\ Emitted[i].type \in {"memory_event", "memory_critical"} =>
                  Emitted[i].data.count >= 0
            /\ Emitted[i].type = "cpu_throttle" => Emitted[i].data.delta >= 0
            /\ Emitted[i].type = "io_pressure" =>
                  \A k \in DOMAIN Emitted[i].data.deltas :
                      Emitted[i].data.deltas[k] >= 0

MlEvents == {"ml_adjustment", "ml_effective", "ml_no_improvement"}

\* C24: in a controller run without a loaded model no container ever has a
\* pending_eval, no step emits ml_adjustment, ml_effective or
\* ml_no_improvement, and every adjust_cpu that raises the soft quota sets
\* it to min(current soft + adjust_step_us, hard_quota_us) and announces
\* that value.
C24_NoModelHeuristicOnly ==
    [][(program = "controller" /\ ~policy_loaded) =>
         LET n == ContainerOrder[cur]
             out == events_sink' \o stdout'
             raise == Min(state[n].cpu_soft + config[n].cpu.adjust_step_us,
                          config[n].cpu.hard_quota_us)
         IN  /\ \A m \in DOMAIN state' : state'[m].pending_eval = NoEval
             /\ CountEvents(out, MlEvents) = 0
             /\ call' = <<>>
             /\ (pc = "adjust_cpu" /\ state'[n].cpu_soft # state[n].cpu_soft) =>
                   /\ state'[n].cpu_soft = raise
                   /\ out = <<Event("soft_limit_hit", "cpu", n,
                                    [new_soft_quota_us |-> raise])>>
             /\ (pc = "adjust_cpu"
                  /\ HasResourceEvent(out, {"soft_limit_hit"}, "cpu")) =>
                   state'[n].cpu_soft = raise
    ]_vars

\* C24 happens: a controller without a model raised a throttled container's
\* soft quota by the step.
C24_NoModelRaised ==
    /\ program = "controller"
    /\ ~policy_loaded
    /\ pc = "adjust_memory"
    /\ HasResourceEvent(Emitted, {"soft_limit_hit"}, "cpu")
    /\ \E n \in DOMAIN state :
          /\ SoftLeHard(config[n])
          /\ state[n].cpu_soft = config[n].cpu.soft_quota_us + config[n].cpu.adjust_step_us
          /\ state[n].pending_eval = NoEval

\* C25: an ensure_base_limits of a container whose applied soft values are
\* already known writes no cgroup file, emits no event and leaves every
\* ResourceState as it was.
C25_LaterEnsureBaseDoesNothing ==
    [][(/\ program = "controller"
        /\ pc = "ensure_base"
        /\ ContainerOrder[cur] \in DOMAIN state
        /\ state[ContainerOrder[cur]].cpu_soft # None
        /\ state[ContainerOrder[cur]].memory_soft # None
        /\ state[ContainerOrder[cur]].io_soft_rbps # None) =>
         /\ written' = <<>>
         /\ events_sink' \o stdout' = <<>>
         /\ state' = state
         /\ cgroup' = cgroup
    ]_vars

\* ceil((hard - soft) / step) of the configured CPU limits
RaisesToHard(cpu) ==
    (cpu.hard_quota_us - cpu.soft_quota_us + cpu.adjust_step_us - 1)
        \div cpu.adjust_step_us

\* C26: without a model and with soft <= hard and a positive step, once
\* RaisesToHard adjust_cpu in a row have each read a throttled_usec above the
\* previous one the applied soft quota equals hard_quota_us; every further
\* such adjust_cpu emits exactly hard_limit_hit, and no step writes cpu.max
\* once the soft quota equals the hard quota.
C26_ThrottledReachesHard ==
    [][(/\ program = "controller"
        /\ ~policy_loaded
        /\ hist.count
        /\ SoftLeHard(config[ContainerOrder[cur]])
        /\ config[ContainerOrder[cur]].cpu.adjust_step_us > 0) =>
         LET n == ContainerOrder[cur]
             cpu == config[n].cpu
             out == events_sink' \o stdout'
         IN  /\ hist'.streak >= RaisesToHard(cpu) =>
                   state'[n].cpu_soft = cpu.hard_quota_us
             /\ (hist.streak >= RaisesToHard(cpu) /\ hist'.streak > hist.streak) =>
                   /\ out = <<Event("hard_limit_hit", "cpu", n,
                                    [hard_quota_us |-> cpu.hard_quota_us])>>
                   /\ written' = <<>>
                   /\ state'[n].cpu_soft = cpu.hard_quota_us
             /\ (n \in DOMAIN state /\ state[n].cpu_soft = cpu.hard_quota_us) =>
                   /\ \A i \in 1..Len(written') : written'[i] # "cpu.max"
                   /\ cgroup'[n]["cpu.max"] = cgroup[n]["cpu.max"]
    ]_vars

\* C26 happens: every adjust_cpu since the baseline read a higher
\* throttled_usec; the soft quota went from the configured one to the hard
\* one in RaisesToHard of them and the one after reported hard_limit_hit.
C26_ThrottledPastHard ==
    /\ program = "controller"
    /\ pc = "adjust_memory"
    /\ ~policy_loaded
    /\ hist.count
    /\ \E n \in DOMAIN state :
          /\ hist.streak = RaisesToHard(config[n].cpu) + 1
          /\ hist.mono
          /\ hist.base # <<>>
          /\ hist.base[1].throttled_usec + hist.streak = state[n].last_cpu_throttled
          /\ state[n].cpu_soft = config[n].cpu.hard_quota_us
          /\ cgroup[n]["cpu.max"] = <<config[n].cpu.hard_quota_us, config[n].cpu.period_us>>
          /\ written = <<>>
    /\ HasResourceEvent(Emitted, {"hard_limit_hit"}, "cpu")

\* C27: while no cpu.stat counter has been read below the previous reading,
\* the usage_delta values the adjust_cpu calls of a container returned add up
\* to the latest usage_usec read minus the first one read, and likewise the
\* throttled_delta values and throttled_usec; last_cpu_usage and
\* last_cpu_throttled hold the latest reading; an adjust_cpu that finds
\* cpu.stat missing returns both deltas 0 and leaves last_cpu_usage and
\* last_cpu_throttled as they were.
C27_DeltasAddUpToGrowth ==
    [][(program = "controller" /\ hist.count /\ pc = "adjust_cpu"
        /\ pc' = "adjust_memory") =>
         LET n == ContainerOrder[cur]
             returned == meta'.cpu[1]
         IN  /\ (hist'.mono /\ hist'.base # <<>>) =>
                   /\ hist'.sum.usage =
                         hist'.seen[1].usage_usec - hist'.base[1].usage_usec
                   /\ hist'.sum.throttled =
                         hist'.seen[1].throttled_usec - hist'.base[1].throttled_usec
                   /\ state'[n].last_cpu_usage = hist'.seen[1].usage_usec
                   /\ state'[n].last_cpu_throttled = hist'.seen[1].throttled_usec
             /\ ~read'[1].present =>
                   /\ returned.usage_delta = 0
                   /\ returned.throttled_delta = 0
                   /\ state'[n].last_cpu_usage = state[n].last_cpu_usage
                   /\ state'[n].last_cpu_throttled = state[n].last_cpu_throttled
    ]_vars

\* C27 happens: both counters have grown since the first reading, cpu.stat
\* was missing on a tick in between, and the adjust_cpu just done read growth
\* again.
C27_GrowthAcrossMissingRead ==
    /\ program = "controller"
    /\ pc = "adjust_memory"
    /\ hist.count
    /\ hist.mono
    /\ hist.gap
    /\ read[1].present
    /\ hist.streak = 1
    /\ hist.sum.usage >= 1
    /\ hist.sum.throttled >= 2
    /\ hist.seen = read

LimitEvents == {"soft_limit_hit", "hard_limit_hit"}
CountResourceEvents(events, types, resource) ==
    Cardinality({i \in 1..Len(events) :
                    events[i].type \in types /\ events[i].resource = resource})

\* C28: with soft <= hard configured for every resource, an adjust_memory
\* that emits hard_limit_hit started with the applied memory soft equal to
\* hard_bytes; an adjust_io that emits hard_limit_hit started with the
\* applied soft of every direction whose rate is >= its hard limit equal to
\* that hard limit; and no step emits more than one soft_limit_hit or
\* hard_limit_hit of a resource.
C28_HardHitOnlyAtHard ==
    [][(program = "controller" /\ SoftLeHard(config[ContainerOrder[cur]])) =>
         LET n == ContainerOrder[cur]
             out == events_sink' \o stdout'
             io_cfg == config[n].io
         IN  /\ HasResourceEvent(out, {"hard_limit_hit"}, "memory") =>
                   /\ pc = "adjust_memory"
                   /\ state[n].memory_soft = config[n].memory.hard_bytes
                   /\ state'[n].memory_soft = config[n].memory.hard_bytes
             /\ HasResourceEvent(out, {"hard_limit_hit"}, "io") =>
                   /\ pc = "adjust_io"
                   /\ read'[1].rbps >= io_cfg.hard_rbps =>
                         state[n].io_soft_rbps = io_cfg.hard_rbps
                   /\ read'[1].wbps >= io_cfg.hard_wbps =>
                         state[n].io_soft_wbps = io_cfg.hard_wbps
                   /\ state'[n] = state[n]
             /\ \A resource \in {"cpu", "memory", "io"} :
                   CountResourceEvents(out, LimitEvents, resource) <= 1
    ]_vars

\* C28 happens: an adjust_io reported hard_limit_hit for the read rate at
\* its hard limit, the read soft already there, while the write soft stands
\* below its hard limit.
C28_IoHardHitOneDirection ==
    /\ program = "controller"
    /\ pc = "record_sample"
    /\ HasResourceEvent(Emitted, {"hard_limit_hit"}, "io")
    /\ \E n \in DOMAIN state :
          /\ SoftLeHard(config[n])
          /\ read[1].rbps >= config[n].io.hard_rbps
          /\ read[1].wbps < config[n].io.hard_wbps
          /\ state[n].io_soft_rbps = config[n].io.hard_rbps
          /\ state[n].io_soft_wbps < config[n].io.hard_wbps

HandlerSteps == {"ensure_base", "adjust_cpu", "adjust_memory", "adjust_io"}

\* What the handler of the step being taken leaves behind in the other mode
\* (live for a dry-run, dry-run for a live run) on the same ResourceState,
\* the same reading and the same answer of the policy, every write
\* succeeding.
TwinOutcome ==
    LET n == ContainerOrder[cur]
        st == IF n \in DOMAIN state THEN state[n] ELSE NewResourceState
        twin == ~dry_run
        answer == IF call' = <<>> THEN None ELSE call'[1].result
        ops == CASE pc = "ensure_base" -> EnsureBaseOps(twin, n, config[n], st)
                 [] pc = "adjust_cpu" ->
                        AdjustCpuOps(twin, n, config[n], st, read'[1], answer)
                 [] pc = "adjust_memory" ->
                        AdjustMemoryOps(twin, n, config[n], st, read'[1])
                 [] pc = "adjust_io" ->
                        AdjustIoOps(twin, n, config[n], st, read'[1])
    IN  Run(ops, 0, st, NoFiles)

\* C29: a step of a dry-run controller and the same step of a live
\* controller whose writes succeed, taken from the same ResourceState on the
\* same configuration, reading and policy answer, leave the same
\* ResourceState, emit the same events and end the same way (returning, or
\* raising the same exception); the dry-run writes no cgroup file and no
\* journal and prints its events, the live run prints nothing and journals
\* them; the steps that are no handler change no ResourceState and emit
\* nothing in either mode.
C29_DryRunMatchesLive ==
    [][(program = "controller" /\ error' # "OSError") =>
         LET n == ContainerOrder[cur]
             out == events_sink' \o stdout'
             twin == TwinOutcome
         IN  /\ pc \in HandlerSteps =>
                   /\ twin.st = state'[n]
                   /\ twin.emitted = out
                   /\ twin.exc = error'
                   /\ dry_run =>
                         /\ written' = <<>>
                         /\ cgroup' = cgroup
                         /\ events_sink' = <<>>
                         /\ stdout' = out
                   /\ ~dry_run =>
                         /\ stdout' = <<>>
                         /\ events_sink' = out
                         /\ twin.written = <<>>
             /\ pc \notin HandlerSteps =>
                   /\ state' = state
                   /\ out = <<>>
                   /\ cgroup' = cgroup
                   /\ dry_run => samples_sink' = <<>>
    ]_vars

\* C29 happens: a dry-run adjust_memory raised the memory soft limit in its
\* ResourceState and printed the event, no cgroup file written.
C29_DryRunMemoryRaise ==
    /\ program = "controller"
    /\ dry_run
    /\ pc = "adjust_io"
    /\ Untouched
    /\ events_sink = <<>>
    /\ HasResourceEvent(stdout, {"soft_limit_hit"}, "memory")
    /\ \E n \in DOMAIN state :
          state[n].memory_soft =
              config[n].memory.soft_bytes + config[n].memory.adjust_step_bytes

====
